---------------------------- MODULE Spec2Model ----------------------------
(***************************************************************************)
(* Model of miplib/data/iterators/fourier_ring_iterators.py:               *)
(* FourierRingIterator and SectionedFourierRingIterator.                   *)
(*                                                                         *)
(* Arrays are functions over index pairs <<i, j>> (0-based, as numpy).     *)
(* A boolean mask is the set of index pairs where it is true, so that the  *)
(* product of two masks is their intersection, their sum is their union    *)
(* and np.where(mask) is the set itself.                                   *)
(*                                                                         *)
(* Numbers that the code uses as angles in radians are held in fixed       *)
(* point, in units of pi/180000 radian: np.pi is 180000 and a number n is  *)
(* Fixed(n).  Angles of the grid points are exact in this unit whenever    *)
(* they are multiples of 45 degrees, which is where the code's comparisons *)
(* can meet a sector boundary; arithmetic is that of the reals, not of     *)
(* IEEE doubles.                                                           *)
(*                                                                         *)
(* The radius field holds the squared radius x^2 + y^2; comparisons with a *)
(* radius bound are made on the squares.                                   *)
(***************************************************************************)
EXTENDS Integers, Sequences, FiniteSets, TLC

\* ------------------------------------------------------------------ bounds
MaxDim == 4
MaxDBin == 2
MaxExtraCalls == 2

Dims == 1..MaxDim
DBins == (-1)..MaxDBin
DAngles == {0, 90, 360}
AngleValues == {0, 90, 270}
QueryArgs == {<<0, 1, 0, 90>>, <<0, 2, 0, 90>>, <<1, 2, 0, 1>>}

\* ------------------------------------------------------- numeric helpers
PI == 180000

\* The fixed-point representation of the plain number n taken as radians:
\* n * 180000 / pi, rounded down (180000 / pi = 57295.78 to two places).
Fixed(n) == n * 57295 + (n * 78) \div 100

\* converters.degrees_to_radians: angle * pi / 180.
degrees_to_radians(angle) == (angle * PI) \div 180

Abs(n) == IF n < 0 THEN -n ELSE n

\* Python's floor division a / b of two ints (b # 0).
FloorDiv(a, b) == IF b > 0 THEN a \div b ELSE (-a) \div (-b)

\* Ceiling of a / b for b > 0.
CeilDiv(a, b) == -((-a) \div b)

\* arctan(a / b) for 0 < a < b, in fixed point.
ArctanRatio(a, b) ==
    CASE a = 1 /\ b = 2 -> 26565
      [] a = 1 /\ b = 3 -> 18435
      [] a = 2 /\ b = 3 -> 33690
      [] a = 1 /\ b = 4 -> 14036
      [] a = 3 /\ b = 4 -> 36870

\* arctan(|y| / |x|) in [0, pi/2], in fixed point.
ArctanAbs(y, x) ==
    LET a == Abs(y)
        b == Abs(x)
    IN  IF a = 0 THEN 0
        ELSE IF b = 0 THEN PI \div 2
        ELSE IF a = b THEN PI \div 4
        ELSE IF a < b THEN ArctanRatio(a, b)
        ELSE (PI \div 2) - ArctanRatio(b, a)

\* np.arctan2(y, x) in (-pi, pi], with arctan2(0, 0) = 0.
arctan2(y, x) ==
    IF x >= 0
    THEN (IF y >= 0 THEN ArctanAbs(y, x) ELSE -ArctanAbs(y, x))
    ELSE (IF y >= 0 THEN PI - ArctanAbs(y, x) ELSE ArctanAbs(y, x) - PI)

\* np.arange(start, stop, step) over integers, step # 0.
arange(start, stop, step) ==
    LET n == IF step > 0 THEN CeilDiv(stop - start, step)
                         ELSE CeilDiv(start - stop, -step)
        len == IF n > 0 THEN n ELSE 0
    IN  [k \in 1..len |-> start + (k - 1) * step]

\* np.arange(-np.floor(n / 2.0), np.ceil(n / 2.0)): the centred axis.
axis(n) == arange(-(n \div 2), CeilDiv(n, 2), 1)

\* np.meshgrid(a0, a1) with the default indexing 'xy': both arrays have
\* shape (len(a1), len(a0)); the first varies along columns with a0, the
\* second along rows with a1.
np_meshgrid(a0, a1) ==
    LET idx == (0..(Len(a1) - 1)) \X (0..(Len(a0) - 1))
    IN  << [p \in idx |-> a0[p[2] + 1]], [p \in idx |-> a1[p[1] + 1]] >>

\* The shape (rows, columns) of a 2D array.
np_shape(a) ==
    << Cardinality({p[1] : p \in DOMAIN a}), Cardinality({p[2] : p \in DOMAIN a}) >>

EmptyArray == [p \in {} |-> 0]

\* ------------------------------------------------------------------- state
VARIABLES
    kind,          \* the class constructed: "ring" or "sectioned"
    shape,         \* constructor argument shape
    d_angle_arg,   \* constructor argument d_angle (degrees)
    raised,        \* the exception the constructor raised, or "none"
    d_bin,         \* self.d_bin
    _nbins,        \* self._nbins
    meshgrid,      \* self.meshgrid = (y, x)
    r,             \* self.r (squared)
    freq_nyq,      \* self.freq_nyq
    _radii,        \* self._radii
    current_ring,  \* self.current_ring
    d_angle,       \* self.d_angle (radians)
    phi,           \* self.phi
    _angle,        \* self._angle
    angle_sector,  \* self.angle_sector
    calls,         \* number of calls of next made so far
    ret,           \* what the last operation returned
    yielded,       \* the (coordinates, ring index) pairs next has returned
    assigned,      \* the values assigned to the angle property, in order
    qlog           \* the first result of each distinct query

vars == <<kind, shape, d_angle_arg, raised, d_bin, _nbins, meshgrid, r, freq_nyq,
          _radii, current_ring, d_angle, phi, _angle, angle_sector, calls, ret,
          yielded, assigned, qlog>>

NoRet == [op |-> "none", idx |-> -1, coords |-> {}, args |-> <<>>]

\* ------------------------------------------------------- FourierRingIterator
\* Line 24: int(floor(shape[0] / (2 * d_bin))).  On ints the division floors
\* already (Python 2) or is floored by floor (Python 3): the same value.
nbins_of(sh, db) == FloorDiv(sh[1], 2 * db)

\* Lines 26-27: the Fourier grid.
meshgrid_of(sh) == np_meshgrid(axis(sh[1]), axis(sh[2]))

\* Line 31: np.sqrt(x ** 2 + y ** 2), held squared.
r_of(mg) == [p \in DOMAIN mg[1] |-> mg[2][p] * mg[2][p] + mg[1][p] * mg[1][p]]

\* Lines 35-36: np.arange(0, freq_nyq, d_bin).
freq_nyq_of(sh) == sh[1] \div 2
radii_of(sh, db) == arange(0, freq_nyq_of(sh), db)

\* radii and nbins properties.
radii == _radii
nbins == _nbins

\* self.r >= ring_start, on squares.
arr_inf_r(ring_start) ==
    {p \in DOMAIN r : ring_start <= 0 \/ r[p] >= ring_start * ring_start}

\* A ring closed at its outer radius: self.r <= ring_stop.
arr_sup_r_inclusive(ring_stop) ==
    {p \in DOMAIN r : ring_stop >= 0 /\ r[p] <= ring_stop * ring_stop}

\* self.r < ring_stop, on squares.
arr_sup_r(ring_stop) ==
    {p \in DOMAIN r : ring_stop > 0 /\ r[p] < ring_stop * ring_stop}

get_points_on_ring(ring_start, ring_stop) ==
    arr_inf_r(ring_start) \cap arr_sup_r(ring_stop)

\* The test of line 55 off by one.
has_next_inclusive == current_ring <= _nbins

\* Line 55: the test that decides between a ring and StopIteration.
has_next == current_ring < _nbins

\* Lines 56-57: the ring about to be consumed.
current_ring_mask ==
    get_points_on_ring(current_ring * d_bin, (current_ring + 1) * d_bin)

\* np.where(mask): the coordinates where the mask is true.
np_where(mask) == mask

\* ---------------------------------------------- SectionedFourierRingIterator
\* Lines 84-87: arctan2(y, x) + pi, shifted by d_angle / 2, and 2 pi taken
\* off the cells that reach 2 pi.
phi_of(mg, da) ==
    [p \in DOMAIN mg[1] |->
        LET v == arctan2(mg[1][p], mg[2][p]) + PI + (da \div 2)
        IN  IF v >= 2 * PI THEN v - 2 * PI ELSE v]

\* Lines 113-119 on an angle field ph.
sector_of(ph, phi_min, phi_max) ==
    LET arr_inf == {p \in DOMAIN ph : ph[p] >= phi_min}
        arr_sup == {p \in DOMAIN ph : ph[p] < phi_max}
        arr_inf_neg == {p \in DOMAIN ph : ph[p] >= phi_min + PI}
        arr_sup_neg == {p \in DOMAIN ph : ph[p] < phi_max + PI}
    IN  (arr_inf \cap arr_sup) \cup (arr_inf_neg \cap arr_sup_neg)

get_angle_sector(phi_min, phi_max) == sector_of(phi, phi_min, phi_max)

\* The angle property's getter.
angle == _angle

\* __getitem__ answering from the cached sector as well.
getitem_cached(ring_start, ring_stop, angle_min, angle_max) ==
    LET ring == get_points_on_ring(ring_start, ring_stop)
        cone == get_angle_sector(Fixed(angle_min), Fixed(angle_max))
    IN  np_where(ring \cap cone \cap angle_sector)

\* Lines 134-137: the arguments go to get_angle_sector as they are.
getitem(ring_start, ring_stop, angle_min, angle_max) ==
    LET ring == get_points_on_ring(ring_start, ring_stop)
        cone == get_angle_sector(Fixed(angle_min), Fixed(angle_max))
    IN  np_where(ring \cap cone)

\* ------------------------------------------------------------ construction
\* FourierRingIterator.__init__ and, for the sectioned class,
\* SectionedFourierRingIterator.__init__ after it.  Line 24 divides by
\* 2 * d_bin: d_bin = 0 raises ZeroDivisionError and no instance exists.
Construct(k, sh, db, da) ==
    /\ kind = k
    /\ shape = sh
    /\ d_angle_arg = da
    /\ d_bin = db
    /\ current_ring = 0
    /\ _angle = 0
    /\ calls = 0
    /\ ret = NoRet
    /\ yielded = <<>>
    /\ assigned = <<>>
    /\ qlog = {}
    /\ IF db = 0
       THEN /\ raised = "ZeroDivisionError"
            /\ _nbins = 0
            /\ meshgrid = <<EmptyArray, EmptyArray>>
            /\ r = EmptyArray
            /\ freq_nyq = 0
            /\ _radii = <<>>
            /\ d_angle = 0
            /\ phi = EmptyArray
            /\ angle_sector = {}
       ELSE /\ raised = "none"
            /\ _nbins = nbins_of(sh, db)
            /\ meshgrid = meshgrid_of(sh)
            /\ r = r_of(meshgrid_of(sh))
            /\ freq_nyq = freq_nyq_of(sh)
            /\ _radii = radii_of(sh, db)
            /\ IF k = "sectioned"
               THEN /\ d_angle = degrees_to_radians(da)
                    /\ phi = phi_of(meshgrid_of(sh), degrees_to_radians(da))
                    \* Line 91: the sector is taken up to d_bin.
                    /\ angle_sector =
                          sector_of(phi_of(meshgrid_of(sh), degrees_to_radians(da)),
                                    0, Fixed(db))
               ELSE /\ d_angle = 0
                    /\ phi = EmptyArray
                    /\ angle_sector = {}

Init ==
    \E sh \in Dims \X Dims, db \in DBins :
        \/ Construct("ring", sh, db, 0)
        \/ \E da \in DAngles : Construct("sectioned", sh, db, da)

\* ----------------------------------------------------------------- actions
CallsLeft == calls < (IF _nbins > 0 THEN _nbins ELSE 0) + MaxExtraCalls

StopIteration == [op |-> "StopIteration", idx |-> -1, coords |-> {}, args |-> <<>>]

Yield(coords, idx) == [op |-> "yield", idx |-> idx, coords |-> coords, args |-> <<>>]

\* FourierRingIterator.next
FourierRingIterator_next ==
    /\ raised = "none"
    /\ kind = "ring"
    /\ CallsLeft
    /\ calls' = calls + 1
    /\ IF has_next
       THEN /\ current_ring' = current_ring + 1
            /\ ret' = Yield(np_where(current_ring_mask), current_ring)
            /\ yielded' = Append(yielded, <<np_where(current_ring_mask), current_ring>>)
       ELSE /\ ret' = StopIteration
            /\ UNCHANGED <<current_ring, yielded>>
    /\ UNCHANGED <<kind, shape, d_angle_arg, raised, d_bin, _nbins, meshgrid, r,
                   freq_nyq, _radii, d_angle, phi, _angle, angle_sector, assigned, qlog>>

\* SectionedFourierRingIterator.next
SectionedFourierRingIterator_next ==
    /\ raised = "none"
    /\ kind = "sectioned"
    /\ CallsLeft
    /\ calls' = calls + 1
    /\ IF has_next
       THEN /\ current_ring' = current_ring + 1
            /\ ret' = Yield(np_where(current_ring_mask \cap angle_sector), current_ring)
            /\ yielded' = Append(yielded,
                    <<np_where(current_ring_mask \cap angle_sector), current_ring>>)
       ELSE /\ ret' = StopIteration
            /\ UNCHANGED <<current_ring, yielded>>
    /\ UNCHANGED <<kind, shape, d_angle_arg, raised, d_bin, _nbins, meshgrid, r,
                   freq_nyq, _radii, d_angle, phi, _angle, angle_sector, assigned, qlog>>

\* The angle property's setter.
angle_setter(value) ==
    /\ raised = "none"
    /\ kind = "sectioned"
    /\ LET a == degrees_to_radians(value)
       IN  /\ _angle' = a
           /\ angle_sector' = get_angle_sector(a, a + d_angle)
    /\ assigned' = <<value>>
    /\ ret' = [op |-> "set", idx |-> -1, coords |-> {}, args |-> <<value>>]
    /\ UNCHANGED <<kind, shape, d_angle_arg, raised, d_bin, _nbins, meshgrid, r,
                   freq_nyq, _radii, current_ring, d_angle, phi, calls, yielded, qlog>>

\* SectionedFourierRingIterator.__getitem__
Query(a) ==
    /\ raised = "none"
    /\ kind = "sectioned"
    /\ LET res == getitem(a[1], a[2], a[3], a[4])
       IN  /\ ret' = [op |-> "query", idx |-> -1, coords |-> res, args |-> a]
           /\ qlog' = IF \E e \in qlog : e[1] = a THEN qlog ELSE qlog \cup {<<a, res>>}
    /\ UNCHANGED <<kind, shape, d_angle_arg, raised, d_bin, _nbins, meshgrid, r,
                   freq_nyq, _radii, current_ring, d_angle, phi, _angle, angle_sector,
                   calls, yielded, assigned>>

SetAngle == \E value \in AngleValues : angle_setter(value)

GetItem == \E a \in QueryArgs : Query(a)

Next ==
    \/ FourierRingIterator_next
    \/ SectionedFourierRingIterator_next
    \/ SetAngle
    \/ GetItem

Spec == Init /\ [][Next]_vars

\* ------------------------------------------------------------------ claims
Min(a, b) == IF a < b THEN a ELSE b

Ready == raised = "none"

\* An instance built from the parameters the classes are meant for.
Valid == Ready /\ d_bin >= 1 /\ (kind = "sectioned" => d_angle_arg > 0)

\* C1: for d_bin >= 1 the k-th call of next (k = 0 .. nbins-1) returns ring
\* index k, every later call raises StopIteration, exactly nbins bins are
\* produced and the cursor stays at nbins once it is there; for both classes.
C1_IterationOrder ==
    (Ready /\ d_bin >= 1) =>
        /\ current_ring = Min(calls, nbins)
        /\ Len(yielded) = Min(calls, nbins)
        /\ \A k \in 1..Len(yielded) : yielded[k][2] = k - 1
        /\ (ret.op = "yield" => calls <= nbins /\ ret.idx = calls - 1)
        /\ (ret.op = "StopIteration" => calls > nbins)
        /\ (ret.op \in {"yield", "StopIteration"} /\ calls > nbins
                => ret.op = "StopIteration")

\* A sectioned iterator with two rings, both consumed, asked twice more.
C1_Witness ==
    /\ Ready /\ d_bin >= 1 /\ kind = "sectioned"
    /\ nbins >= 2 /\ calls >= nbins + 2
    /\ Len(yielded) = nbins
    /\ ret.op = "StopIteration"

\* C2: the grid and the radius field have the shape (h, w) of the image, and
\* every coordinate pair (i, j) that next returns has 0 <= i < h, 0 <= j < w.
C2_GridHasImageShape ==
    Valid =>
        /\ np_shape(meshgrid[1]) = shape
        /\ np_shape(meshgrid[2]) = shape
        /\ np_shape(r) = shape
        /\ \A k \in 1..Len(yielded) : \A p \in yielded[k][1] :
              /\ 0 <= p[1] /\ p[1] < shape[1]
              /\ 0 <= p[2] /\ p[2] < shape[2]

\* C3: a sectioned iterator built with d_angle = 360 and never given an
\* angle returns, for each ring, the coordinates the plain iterator returns.
C3_FullCircleEqualsRing ==
    (Valid /\ kind = "sectioned" /\ d_angle_arg = 360 /\ assigned = <<>>) =>
        \A k \in 1..Len(yielded) :
            yielded[k][1] = np_where(get_points_on_ring((k - 1) * d_bin, k * d_bin))

\* C4: for d_bin >= 1, nbins = floor(shape[0] / (2 * d_bin)) and radii has
\* exactly nbins entries, the k-th being k * d_bin.
C4_RadiiLength ==
    (Ready /\ d_bin >= 1) =>
        /\ nbins * (2 * d_bin) <= shape[1]
        /\ shape[1] < (nbins + 1) * (2 * d_bin)
        /\ Len(radii) = nbins
        /\ \A k \in 1..Len(radii) : radii[k] = (k - 1) * d_bin

\* C5: query takes its two angles in degrees: its result is the ring
\* intersected with the sector between the two angles converted to radians.
C5_QueryConvertsDegrees ==
    (Valid /\ ret.op = "query") =>
        ret.coords =
            np_where(get_points_on_ring(ret.args[1], ret.args[2])
                     \cap get_angle_sector(degrees_to_radians(ret.args[3]),
                                           degrees_to_radians(ret.args[4])))

\* Whether the angle v of [0, 2 pi) lies in [lo, hi) taken modulo 2 pi.
InArc(v, lo, hi) == ((v - lo) % (2 * PI)) < hi - lo

\* Sectors [phiMin, phiMax) in degrees, phiMin in [0, 360).
SectorTests == {<<0, 90>>, <<45, 135>>, <<135, 225>>, <<270, 360>>}

\* C6: angleSector(phiMin, phiMax) is true exactly where the angle lies in
\* [phiMin, phiMax) or in [phiMin + pi, phiMax + pi) modulo 2 pi, so that a
\* pixel at angle a is selected iff one at (a + pi) mod 2 pi is.
C6_SectorPointSymmetric ==
    (Valid /\ kind = "sectioned") =>
        \A t \in SectorTests :
            LET lo == degrees_to_radians(t[1])
                hi == degrees_to_radians(t[2])
                sel == get_angle_sector(lo, hi)
            IN  /\ sel = {p \in DOMAIN phi :
                              InArc(phi[p], lo, hi) \/ InArc(phi[p], lo + PI, hi + PI)}
                /\ \A p, q \in DOMAIN phi :
                      phi[q] = (phi[p] + PI) % (2 * PI) => (p \in sel <=> q \in sel)

\* C7: construction with d_bin <= 0, or with d_angle <= 0 for the sectioned
\* class, fails: an error is raised and no instance is produced.
C7_InvalidParameterRejected ==
    (d_bin <= 0 \/ (kind = "sectioned" /\ d_angle_arg <= 0)) => raised # "none"

\* C8: the angle property reads 0 after construction and, after it is set to
\* v degrees, reads v, while the cached mask is the sector
\* [radians(v), radians(v) + d_angle).
C8_AngleReadsDegrees ==
    (Valid /\ kind = "sectioned") =>
        IF assigned = <<>>
        THEN angle = 0
        ELSE LET v == assigned[1]
             IN  /\ angle = Fixed(v)
                 /\ angle_sector =
                       get_angle_sector(degrees_to_radians(v),
                                        degrees_to_radians(v) + d_angle)

\* C9: for d_bin >= 1 the ring masks of different ring indices are pairwise
\* disjoint, and so are the coordinate sets one iteration returns.
C9_RingsDisjoint ==
    (Ready /\ d_bin >= 1) =>
        /\ \A i, j \in 0..(nbins - 1) :
              i # j => get_points_on_ring(i * d_bin, (i + 1) * d_bin)
                         \cap get_points_on_ring(j * d_bin, (j + 1) * d_bin) = {}
        /\ \A a, b \in 1..Len(yielded) :
              a # b => yielded[a][1] \cap yielded[b][1] = {}

\* Two rings returned by one iteration, neither of them empty.
C9_Witness ==
    /\ Ready /\ d_bin >= 1
    /\ Len(yielded) >= 2
    /\ yielded[1][1] # {} /\ yielded[2][1] # {}

\* C10: query changes neither the cursor nor the current angle nor the
\* cached sector, and every query returns what the first query with the same
\* arguments returned, whatever was called in between.
C10_QueryPure ==
    /\ [](ret.op = "query" => <<ret.args, ret.coords>> \in qlog)
    /\ [][ret'.op = "query" =>
            /\ current_ring' = current_ring
            /\ _angle' = _angle
            /\ angle_sector' = angle_sector
            /\ calls' = calls]_vars

\* A query answered after the cursor has moved and the angle has been set,
\* with a second distinct query on record.
C10_Witness ==
    /\ ret.op = "query" /\ ret.coords # {}
    /\ current_ring > 0 /\ assigned # <<>>
    /\ Cardinality(qlog) >= 2

=============================================================================
